---- MODULE Spec2Model ----
(***************************************************************************)
(* Model of src/sql_query_generator.py (class SQLQueryGenerator): the      *)
(* mapping-to-SQL compiler, its alias registry, join-info store and query  *)
(* cache, the text-level alias renamer and the CTE composer.               *)
(*                                                                         *)
(* Text is modelled at character level: a Python str is a sequence of      *)
(* one-character strings, so that strip/upper/split/replace/join are       *)
(* computed rather than assumed.  Python dicts are modelled as sequences   *)
(* of <<key, value>> pairs with unique keys, which keeps insertion order.  *)
(* The Cyrillic literals of the source (column names, type categories,     *)
(* the CTE diagnostic) are written in Latin transliteration.               *)
(***************************************************************************)
EXTENDS Integers, Sequences, FiniteSets, TLC

VARIABLES mapping_file, _queries, _aliases, _join_info, op, ret, mark

vars == <<mapping_file, _queries, _aliases, _join_info, op, ret, mark>>

(***************************************************************************)
(* Bounds of the model.                                                    *)
(***************************************************************************)
\* largest number of rows of the mapping table
MaxRows == 2
\* largest number of field names in a field filter
MaxFilterLen == 1

(***************************************************************************)
(* Python str primitives used by the source.                               *)
(***************************************************************************)
LowerLetters == <<"a","b","c","d","e","f","g","h","i","j","k","l","m",
                  "n","o","p","q","r","s","t","u","v","w","x","y","z">>
UpperLetters == <<"A","B","C","D","E","F","G","H","I","J","K","L","M",
                  "N","O","P","Q","R","S","T","U","V","W","X","Y","Z">>

LowerSet == {LowerLetters[i] : i \in 1..26}
UpperOf == [c \in LowerSet |-> UpperLetters[CHOOSE i \in 1..26 : LowerLetters[i] = c]]

\* str.upper() on one character
upper_char(c) == IF c \in LowerSet THEN UpperOf[c] ELSE c

\* str.upper()
upper(s) == [i \in 1..Len(s) |-> upper_char(s[i])]

\* the characters str.strip() removes
Whitespace == {" ", "\n", "\t", "\r"}

\* str.lstrip(chars)
RECURSIVE lstrip(_, _)
lstrip(s, chars) ==
    IF s # <<>> /\ s[1] \in chars THEN lstrip(Tail(s), chars) ELSE s

\* str.rstrip(chars)
RECURSIVE rstrip(_, _)
rstrip(s, chars) ==
    IF s # <<>> /\ s[Len(s)] \in chars THEN rstrip(SubSeq(s, 1, Len(s) - 1), chars) ELSE s

\* str.strip(chars); str.strip() is strip(s, Whitespace)
strip(s, chars) == rstrip(lstrip(s, chars), chars)

\* str.startswith(prefix)
startswith(s, prefix) ==
    Len(s) >= Len(prefix) /\ SubSeq(s, 1, Len(prefix)) = prefix

\* str.endswith(suffix)
endswith(s, suffix) ==
    Len(s) >= Len(suffix) /\ SubSeq(s, Len(s) - Len(suffix) + 1, Len(s)) = suffix

\* sub occurs in s at position i
occurs_at(s, sub, i) == \A k \in 1..Len(sub) : s[i + k - 1] = sub[k]

\* str.find(sub) searching from position i on, 1-based; 0 when sub does not occur
RECURSIVE find_from(_, _, _)
find_from(s, sub, i) ==
    IF i + Len(sub) - 1 > Len(s) THEN 0
    ELSE IF occurs_at(s, sub, i) THEN i
    ELSE find_from(s, sub, i + 1)

\* str.find(sub)
find(s, sub) == find_from(s, sub, 1)

\* sub in s
contains(s, sub) == find(s, sub) # 0

\* s cut at an occurrence of sep at position i (i = 0: no occurrence)
cut_at(s, sep, i) ==
    IF i = 0 THEN <<s>>
    ELSE <<SubSeq(s, 1, i - 1), SubSeq(s, i + Len(sep), Len(s))>>

\* str.split(sep, 1): one part when sep does not occur, else two
split_once(s, sep) == cut_at(s, sep, find(s, sep))

\* str.split(sep), from the first cut on
RECURSIVE split_rest(_, _)
split_rest(parts, sep) ==
    IF Len(parts) = 1 THEN parts
    ELSE <<parts[1]>> \o split_rest(cut_at(parts[2], sep, find(parts[2], sep)), sep)

\* str.split(sep)
split(s, sep) == split_rest(split_once(s, sep), sep)

\* str.replace(old, new), from the first cut on
RECURSIVE replace_rest(_, _, _)
replace_rest(parts, old, new) ==
    IF Len(parts) = 1 THEN parts[1]
    ELSE parts[1] \o new \o replace_rest(cut_at(parts[2], old, find(parts[2], old)), old, new)

\* str.replace(old, new)
replace(s, old, new) == replace_rest(split_once(s, old), old, new)

\* sep.join(parts)
RECURSIVE join(_, _)
join(sep, parts) ==
    IF parts = <<>> THEN <<>>
    ELSE IF Len(parts) = 1 THEN parts[1]
    ELSE parts[1] \o sep \o join(sep, Tail(parts))

Digits == <<"0","1","2","3","4","5","6","7","8","9">>

\* str(n) for a natural number, as an f-string formats it
RECURSIVE str(_)
str(n) == IF n < 10 THEN <<Digits[n + 1]>> ELSE str(n \div 10) \o <<Digits[(n % 10) + 1]>>

(***************************************************************************)
(* Python dict: insertion-ordered <<key, value>> pairs.                    *)
(***************************************************************************)
\* key in d
dict_has(d, k) == \E i \in 1..Len(d) : d[i][1] = k

\* d[key]
dict_get(d, k) == d[CHOOSE i \in 1..Len(d) : d[i][1] = k][2]

\* d[key] = value: an existing key keeps its position
dict_set(d, k, v) ==
    IF dict_has(d, k)
    THEN [i \in 1..Len(d) |-> IF d[i][1] = k THEN <<k, v>> ELSE d[i]]
    ELSE Append(d, <<k, v>>)

\* d.values(), in insertion order
dict_values(d) == [i \in 1..Len(d) |-> d[i][2]]

\* d.keys(), in insertion order
dict_keys(d) == [i \in 1..Len(d) |-> d[i][1]]

(***************************************************************************)
(* The mapping table (self.df).  A row holds the seven required columns of *)
(* validate_structure; NaN is pandas' missing value.                       *)
(***************************************************************************)
\* pandas NaN: not a str (no str holds a three-letter character)
NaN == <<"NaN">>

\* pd.isna / pd.notna
isna(x) == x = NaN
notna(x) == x # NaN

\* type categories compared in _get_field_type_info (transliterated)
Spravochnik == <<"S","p","r","a","v","o","c","h","n","i","k">>
Dokument == <<"D","o","k","u","m","e","n","t">>
Perechislenie == <<"P","e","r","e","c","h","i","s","l","e","n","i","e">>

\* one row of the mapping table
Row(t, f, ty, st, sf, ext, rel) ==
    [table_1c |-> t, field_1c |-> f, field_type |-> ty, sql_table |-> st,
     sql_field |-> sf, external_table |-> ext, relation |-> rel]

\* logical table names: two that may be mapped, one that never is
TableA == <<"C",".","a">>
TableB == <<"C",".","b">>
TableZ == <<"Z">>
TableNames == {TableA, TableB, TableZ}

\* relation text "[<main>].<col> = [<ext>]._IDRRef"
Relation(mt, col, ext) ==
    <<"[">> \o mt \o <<"]", ".">> \o col \o <<" ", "=", " ", "[">> \o ext
        \o <<"]", ".", "_", "I", "D", "R", "R", "e", "f">>

\* the master table mapping files are cut from, in stored order.  Table C.a:
\* a regular field named like the next field's _ID column, two
\* self-references on different columns, a reference to an external table.
\* Table C.b: two references to one external table and a reference to
\* another one under an unlisted type category.
RowPool ==
    << Row(TableA, <<"f", "_", "I", "D">>, NaN, <<"P">>, <<"k">>, NaN, NaN),
       Row(TableA, <<"f">>, Spravochnik \o <<".", "X">>, <<"P">>, <<"c">>, <<"P">>, NaN),
       Row(TableA, <<"p">>, Spravochnik \o <<".", "X">>, <<"P">>, <<"b">>, <<"P">>, NaN),
       Row(TableA, <<"g">>, Dokument \o <<".", "X">>, <<"P">>, <<"d">>, <<"Q">>,
           Relation(<<"P">>, <<"d">>, <<"Q">>)),
       Row(TableB, <<"g">>, Dokument \o <<".", "Y">>, <<"S">>, <<"d">>, <<"Q">>,
           Relation(<<"S">>, <<"d">>, <<"Q">>)),
       Row(TableB, <<"h">>, Perechislenie \o <<".", "X">>, <<"S">>, <<"e">>, <<"Q">>,
           Relation(<<"S">>, <<"e">>, <<"Q">>)),
       Row(TableB, <<"m">>, <<"P", "l", "a", "n", ".", "X">>, <<"S">>, <<"n">>, <<"R">>,
           Relation(<<"S">>, <<"n">>, <<"R">>)) >>

\* the mapping files an instance may be built from: a file holds a run of
\* at most MaxRows consecutive rows of the master table, and is named by
\* the positions of its first and last row
MappingFiles ==
    {v \in (1..Len(RowPool)) \X (1..Len(RowPool)) :
        v[1] <= v[2] /\ v[2] - v[1] < MaxRows}

\* pd.read_excel(mapping_file)
read_excel(file) == SubSeq(RowPool, file[1], file[2])

\* self.df, loaded once by __init__ and never written again
df == read_excel(mapping_file)

\* self.df[self.df[table column] == table_1c_name]
table_data(table_1c_name) == SelectSeq(df, LAMBDA row : row.table_1c = table_1c_name)

\* get_available_tables: the distinct logical table names, in order of first row
RECURSIVE unique_from(_, _)
unique_from(seen, s) ==
    IF s = <<>> THEN seen
    ELSE unique_from(IF \E i \in 1..Len(seen) : seen[i] = s[1] THEN seen
                     ELSE Append(seen, s[1]), Tail(s))

unique(s) == unique_from(<<>>, s)

get_available_tables == unique([i \in 1..Len(df) |-> df[i].table_1c])

(***************************************************************************)
(* Field classification.                                                   *)
(***************************************************************************)
\* _get_field_type_info: <<category, description column>>
_get_field_type_info(field_type) ==
    IF isna(field_type) THEN <<"regular", <<>>>>
    ELSE LET type_category == split(field_type, <<".">>)[1]
         IN  IF type_category = Spravochnik
                THEN <<"reference", <<"_","D","e","s","c","r","i","p","t","i","o","n">>>>
             ELSE IF type_category = Dokument
                THEN <<"document", <<"_","N","u","m","b","e","r">>>>
             ELSE IF type_category = Perechislenie
                THEN <<"enum", <<"_","E","n","u","m","O","r","d","e","r">>>>
             ELSE <<"reference", <<"_","D","e","s","c","r","i","p","t","i","o","n">>>>

(***************************************************************************)
(* The instance state as a value: self.queries = self._queries,            *)
(* self.aliases = self._aliases, self.join_info = self._join_info.         *)
(* Operations are operators from (self, inputs) to (self, result); the     *)
(* actions below apply them to the variables.  A value that the code names *)
(* once and then uses several times is passed on as an operator argument.  *)
(***************************************************************************)
Self == [queries |-> _queries, aliases |-> _aliases, join_info |-> _join_info]

\* the instance right after __init__
NewSelf == [queries |-> <<>>, aliases |-> <<>>, join_info |-> <<>>]

\* results: a str, None, a dict, or a raised exception
StrResult(s) == [kind |-> "str", val |-> s]
NoneResult == [kind |-> "None", val |-> <<>>]
DictResult(d) == [kind |-> "dict", val |-> d]
Raised(e) == [kind |-> e, val |-> <<>>]

\* include_aliases: None, or a list of field names
NoFilter == [none |-> TRUE, list |-> <<>>]
Filter(l) == [none |-> FALSE, list |-> l]

\* field_name in include_aliases
in_list(x, l) == \E i \in 1..Len(l) : l[i] = x

kMain == <<"m","a","i","n">>
kAs == <<" ","A","S"," ">>
kQuote == <<"\"">>
kIdSuffix == <<"_","I","D">>

\* f"{expr} AS \"{name}\""
select_part(expr, name) == expr \o kAs \o kQuote \o name \o kQuote

\* f"LEFT JOIN {external_table} {alias} ON {join_condition}"
join_clause(external_table, alias, join_condition) ==
    <<"L","E","F","T"," ","J","O","I","N"," ">> \o external_table \o <<" ">> \o alias
        \o <<" ","O","N"," ">> \o join_condition

\* a variant of parent_alias with one alias for every column
\* (C11_SelfJoinDistinct tells it from parent_alias)
parent_alias_shared(gk_field) == <<"p","a","r","e","n","t">>

\* f"parent_{gk_field}"
parent_alias(gk_field) == <<"p","a","r","e","n","t","_">> \o gk_field

\* f"ext_{alias_counter}"
ext_alias(alias_counter) == <<"e","x","t","_">> \o str(alias_counter)

\* f"main.[{gk_field}] = {alias}.[_IDRRef]"
recursive_condition(gk_field, alias) ==
    kMain \o <<".","[">> \o gk_field \o <<"]"," ","="," ">> \o alias
        \o <<".","[","_","I","D","R","R","e","f","]">>

\* relation.replace(f"[{external_table}]", alias).replace(f"[{main_table}]", "main")
relation_condition(relation, external_table, alias, main_table) ==
    replace(replace(relation, <<"[">> \o external_table \o <<"]">>, alias),
            <<"[">> \o main_table \o <<"]">>, kMain)

\* a variant of _add_join_info that keeps the clause already stored under
\* the alias (C17_NoDanglingAlias tells it from _add_join_info)
_add_join_info_keep(self, table_1c_name, alias, join_condition) ==
    IF dict_has(self.join_info, table_1c_name)
    THEN IF dict_has(dict_get(self.join_info, table_1c_name), alias) THEN self
         ELSE [self EXCEPT !.join_info =
                  dict_set(self.join_info, table_1c_name,
                      dict_set(dict_get(self.join_info, table_1c_name), alias,
                               join_condition))]
    ELSE [self EXCEPT !.join_info =
             dict_set(self.join_info, table_1c_name, <<<<alias, join_condition>>>>)]

\* _add_join_info
_add_join_info(self, table_1c_name, alias, join_condition) ==
    LET ji == IF dict_has(self.join_info, table_1c_name)
              THEN self.join_info
              ELSE dict_set(self.join_info, table_1c_name, <<>>)
    IN  [self EXCEPT !.join_info =
            dict_set(ji, table_1c_name,
                     dict_set(dict_get(ji, table_1c_name), alias, join_condition))]

\* self._aliases[table_1c_name][name] = expr
set_alias(self, table_1c_name, name, expr) ==
    [self EXCEPT !.aliases =
        dict_set(self.aliases, table_1c_name,
                 dict_set(dict_get(self.aliases, table_1c_name), name, expr))]

\* _process_regular_field from the point where its expression is formed
regular_result(self, row, table_1c_name, expr) ==
    [self |-> set_alias(self, table_1c_name, row.field_1c, expr),
     select_part |-> select_part(expr, row.field_1c)]

\* _process_regular_field: the instance and the select part
_process_regular_field(self, row, table_1c_name, join_aliases) ==
    regular_result(self, row, table_1c_name,
                   dict_get(join_aliases, row.sql_table) \o <<".">> \o row.sql_field)

\* a variant of reference_result that returns the description column only
\* (C14_SelectListShape tells it from reference_result)
reference_result_desc_only(self, table_1c_name, field_name, join_aliases, join_tracker, select_part_id, desc_expr) ==
    [self |-> set_alias(self, table_1c_name, field_name, desc_expr),
     join_aliases |-> join_aliases,
     join_tracker |-> join_tracker,
     select_parts |-> <<select_part(desc_expr, field_name)>>]

\* the end of _process_reference_field: the description column is
\* registered and the two select parts are returned; the result also holds
\* the caller's join_aliases and join_tracker as the call mutated them
reference_result(self, table_1c_name, field_name, join_aliases, join_tracker, select_part_id, desc_expr) ==
    [self |-> set_alias(self, table_1c_name, field_name, desc_expr),
     join_aliases |-> join_aliases,
     join_tracker |-> join_tracker,
     select_parts |-> <<select_part_id, select_part(desc_expr, field_name)>>]

\* the recursive-relation branch of _process_reference_field
recursive_join(self, row, table_1c_name, join_aliases, join_tracker, select_part_id, external_field, alias) ==
    LET external_table == row.external_table
        gk_field == row.sql_field
        join_key == external_table \o <<"_">> \o alias
        fresh == join_key \notin join_tracker
    IN  reference_result(
            IF fresh
            THEN _add_join_info(self, table_1c_name, alias,
                     join_clause(external_table, alias, recursive_condition(gk_field, alias)))
            ELSE self,
            table_1c_name, row.field_1c,
            IF fresh THEN dict_set(join_aliases, external_table \o gk_field, alias)
            ELSE join_aliases,
            IF fresh THEN join_tracker \cup {join_key} ELSE join_tracker,
            select_part_id, alias \o <<".">> \o external_field)

\* the other branch, for an external table not yet in join_aliases
new_external_join(self, row, table_1c_name, join_aliases, main_table, join_tracker, select_part_id, external_field, alias) ==
    LET external_table == row.external_table
        relation == row.relation
        join_key == external_table \o <<"_">> \o alias
        joins == notna(relation) /\ join_key \notin join_tracker
    IN  reference_result(
            IF joins
            THEN _add_join_info(self, table_1c_name, alias,
                     join_clause(external_table, alias,
                         relation_condition(relation, external_table, alias, main_table)))
            ELSE self,
            table_1c_name, row.field_1c,
            dict_set(join_aliases, external_table, alias),
            IF joins THEN join_tracker \cup {join_key} ELSE join_tracker,
            select_part_id, alias \o <<".">> \o external_field)

\* a variant of external_join that never reuses the alias of an external
\* table (C12_ExternalAliasReuse tells it from external_join)
external_join_always_new(self, row, table_1c_name, join_aliases, alias_counter, main_table, join_tracker, select_part_id, external_field) ==
    new_external_join(self, row, table_1c_name, join_aliases, main_table, join_tracker,
        select_part_id, external_field, ext_alias(alias_counter))

\* the other branch of _process_reference_field
external_join(self, row, table_1c_name, join_aliases, alias_counter, main_table, join_tracker, select_part_id, external_field) ==
    IF dict_has(join_aliases, row.external_table)
    THEN reference_result(self, table_1c_name, row.field_1c, join_aliases, join_tracker,
             select_part_id,
             dict_get(join_aliases, row.external_table) \o <<".">> \o external_field)
    ELSE new_external_join(self, row, table_1c_name, join_aliases, main_table, join_tracker,
             select_part_id, external_field, ext_alias(alias_counter))

\* _process_reference_field from the point where the _ID column is formed
reference_id_part(self, row, table_1c_name, join_aliases, alias_counter, main_table, join_tracker, id_expr, external_field) ==
    IF row.external_table = main_table
    THEN recursive_join(set_alias(self, table_1c_name, row.field_1c \o kIdSuffix, id_expr),
             row, table_1c_name, join_aliases, join_tracker,
             select_part(id_expr, row.field_1c \o kIdSuffix), external_field,
             parent_alias(row.sql_field))
    ELSE external_join(set_alias(self, table_1c_name, row.field_1c \o kIdSuffix, id_expr),
             row, table_1c_name, join_aliases, alias_counter, main_table, join_tracker,
             select_part(id_expr, row.field_1c \o kIdSuffix), external_field)

\* _process_reference_field: the instance, the caller's join_aliases and
\* join_tracker as mutated, and the two select parts.  alias_counter is an
\* int passed by value: the increment of line 88 never reaches the caller.
_process_reference_field(self, row, table_1c_name, join_aliases, alias_counter, main_table, join_tracker) ==
    reference_id_part(self, row, table_1c_name, join_aliases, alias_counter, main_table,
        join_tracker, dict_get(join_aliases, row.sql_table) \o <<".">> \o row.sql_field,
        _get_field_type_info(row.field_type)[2])

\* the loop body after _process_regular_field returned r
add_regular(loc, r) ==
    [loc EXCEPT !.self = r.self, !.select_parts = Append(loc.select_parts, r.select_part)]

\* the loop body after _process_reference_field returned r
add_reference(loc, r) ==
    [self |-> r.self,
     join_aliases |-> r.join_aliases,
     alias_counter |-> loc.alias_counter + 1,
     join_tracker |-> r.join_tracker,
     select_parts |-> loc.select_parts \o r.select_parts]

\* one iteration of the row loop of generate_query; loc holds the instance
\* and the locals join_aliases, alias_counter, join_tracker, select_parts
process_row(loc, row, table_1c_name, include_aliases, main_table) ==
    IF ~include_aliases.none /\ ~in_list(row.field_1c, include_aliases.list)
    THEN loc
    ELSE IF _get_field_type_info(row.field_type)[1] = "regular"
    THEN add_regular(loc, _process_regular_field(loc.self, row, table_1c_name,
                                                 loc.join_aliases))
    ELSE add_reference(loc, _process_reference_field(loc.self, row, table_1c_name,
                                loc.join_aliases, loc.alias_counter, main_table,
                                loc.join_tracker))

\* for _, row in table_data.iterrows(): rows i..Len(rows)
RECURSIVE row_loop(_, _, _, _, _, _)
row_loop(loc, rows, i, table_1c_name, include_aliases, main_table) ==
    IF i > Len(rows) THEN loc
    ELSE row_loop(process_row(loc, rows[i], table_1c_name, include_aliases, main_table),
                  rows, i + 1, table_1c_name, include_aliases, main_table)

\* the cache test of generate_query
cache_hit(self, table_1c_name, include_aliases) ==
    dict_has(self.queries, table_1c_name) /\ include_aliases.none

\* a variant of table_not_found that creates the registries of the table
\* before it returns (C6_UnknownTableNoEffect tells it from table_not_found)
table_not_found_registered(self, table_1c_name) ==
    [self |-> [self EXCEPT !.aliases = dict_set(self.aliases, table_1c_name, <<>>),
                           !.join_info = dict_set(self.join_info, table_1c_name, <<>>)],
     ret |-> NoneResult]

\* the unknown-table exit of generate_query (the listing it prints is not state)
table_not_found(self, table_1c_name) == [self |-> self, ret |-> NoneResult]

\* the registry initialisation of generate_query
init_registries(self, table_1c_name) ==
    [self EXCEPT
        !.aliases = IF dict_has(self.aliases, table_1c_name) THEN self.aliases
                    ELSE dict_set(self.aliases, table_1c_name, <<>>),
        !.join_info = IF dict_has(self.join_info, table_1c_name) THEN self.join_info
                      ELSE dict_set(self.join_info, table_1c_name, <<>>)]

\* the locals of generate_query before the row loop
loop_start(self, table_1c_name, main_table) ==
    [self |-> init_registries(self, table_1c_name),
     join_aliases |-> <<<<main_table, kMain>>>>,
     alias_counter |-> 0,
     join_tracker |-> {},
     select_parts |-> <<>>]

\* sql_query += "\n" + join_condition, for every stored JOIN
RECURSIVE join_lines(_)
join_lines(joins) ==
    IF joins = <<>> THEN <<>> ELSE <<"\n">> \o joins[1] \o join_lines(Tail(joins))

\* the assembly of the SQL text from the select parts and the stored JOINs
assemble(self, table_1c_name, select_parts, main_table) ==
    <<"S","E","L","E","C","T","\n"," "," "," "," ">>
        \o join(<<",","\n"," "," "," "," ">>, select_parts)
        \o <<"\n","F","R","O","M"," ">> \o main_table \o <<" ">> \o kMain
        \o (IF dict_has(self.join_info, table_1c_name)
            THEN join_lines(dict_values(dict_get(self.join_info, table_1c_name)))
            ELSE <<>>)

\* a variant of cache_store without the test of line 174: it also stores a
\* filtered text (C2_CacheWrittenOnce tells it from cache_store)
cache_store_any(self, table_1c_name, include_aliases, sql_query) ==
    [self EXCEPT !.queries = dict_set(self.queries, table_1c_name, sql_query)]

\* the cache write of generate_query
cache_store(self, table_1c_name, include_aliases, sql_query) ==
    IF include_aliases.none
    THEN [self EXCEPT !.queries = dict_set(self.queries, table_1c_name, sql_query)]
    ELSE self

\* the end of generate_query: the cache write and the return
query_result(self, table_1c_name, include_aliases, sql_query) ==
    [self |-> cache_store(self, table_1c_name, include_aliases, sql_query),
     ret |-> StrResult(sql_query)]

\* generate_query after the row loop
assemble_query(loc, table_1c_name, include_aliases, main_table) ==
    query_result(loc.self, table_1c_name, include_aliases,
                 assemble(loc.self, table_1c_name, loc.select_parts, main_table))

\* generate_query after the cache test, on the rows of the table
generate_rows(self, table_1c_name, include_aliases, rows) ==
    IF rows = <<>> THEN table_not_found(self, table_1c_name)
    ELSE assemble_query(
             row_loop(loop_start(self, table_1c_name, rows[1].sql_table), rows, 1,
                      table_1c_name, include_aliases, rows[1].sql_table),
             table_1c_name, include_aliases, rows[1].sql_table)

\* generate_query: the instance after the call and the returned value
generate_query(self, table_1c_name, include_aliases) ==
    IF cache_hit(self, table_1c_name, include_aliases)
    THEN [self |-> self, ret |-> StrResult(dict_get(self.queries, table_1c_name))]
    ELSE generate_rows(self, table_1c_name, include_aliases, table_data(table_1c_name))

\* get_query_aliases after the generation it may trigger
aliases_result(self, table_1c_name) ==
    IF ~dict_has(self.aliases, table_1c_name)
    THEN [self |-> self, ret |-> Raised("ValueError")]
    ELSE [self |-> self, ret |-> DictResult(dict_get(self.aliases, table_1c_name))]

\* get_query_aliases
get_query_aliases(self, table_1c_name) ==
    aliases_result(IF ~dict_has(self.aliases, table_1c_name)
                   THEN generate_query(self, table_1c_name, NoFilter).self
                   ELSE self,
                   table_1c_name)

\* get_table_join_info after the generation it may trigger:
\* self._join_info.get(table_1c_name, {})
join_info_result(self, table_1c_name) ==
    [self |-> self,
     ret |-> DictResult(IF dict_has(self.join_info, table_1c_name)
                        THEN dict_get(self.join_info, table_1c_name)
                        ELSE <<>>)]

\* get_table_join_info
get_table_join_info(self, table_1c_name) ==
    join_info_result(IF ~dict_has(self.join_info, table_1c_name)
                     THEN generate_query(self, table_1c_name, NoFilter).self
                     ELSE self,
                     table_1c_name)

(***************************************************************************)
(* rename_aliases: the line-oriented alias renamer.                        *)
(***************************************************************************)
kSELECT == <<"S","E","L","E","C","T">>

\* the prefixes that end the SELECT list
SectionWords ==
    { <<"F","R","O","M">>, <<"W","H","E","R","E">>, <<"G","R","O","U","P">>,
      <<"H","A","V","I","N","G">>, <<"O","R","D","E","R">>, <<"J","O","I","N">> }

\* {k.strip('"\''): v for k, v in rename_dict.items()}
RECURSIVE normalize_rename(_)
normalize_rename(rename_dict) ==
    IF rename_dict = <<>> THEN <<>>
    ELSE LET n == Len(rename_dict)
         IN  dict_set(normalize_rename(SubSeq(rename_dict, 1, n - 1)),
                      strip(rename_dict[n][1], {"\"", "'"}), rename_dict[n][2])

\* stripped_line.upper().startswith('SELECT'), with the line in upper case
enters_select(upper_line) == startswith(upper_line, kSELECT)

\* a variant of leaves_select that never ends the SELECT list
\* (C7_SectionIsolation tells it from leaves_select)
leaves_select_never(upper_line) == FALSE

\* stripped_line.upper().startswith(('FROM', 'WHERE', ...)), with the line
\* in upper case
leaves_select(upper_line) == \E w \in SectionWords : startswith(upper_line, w)

\* ' AS ' in clean_line.upper()
has_as(clean_line) == contains(upper(clean_line), kAs)

\* clean_line.split(' AS ', 1)
split_as(clean_line) == split_once(clean_line, kAs)

\* the alias token without its surrounding quotes
unquote(alias_part) ==
    IF startswith(alias_part, <<"\"">>) /\ endswith(alias_part, <<"\"">>)
        THEN SubSeq(alias_part, 2, Len(alias_part) - 1)
    ELSE IF startswith(alias_part, <<"'">>) /\ endswith(alias_part, <<"'">>)
        THEN SubSeq(alias_part, 2, Len(alias_part) - 1)
    ELSE alias_part

\* a variant of resolve_alias that looks the result up again
\* (C15_SingleLookup tells it from resolve_alias)
resolve_alias_twice(normalized_rename, alias) ==
    IF ~dict_has(normalized_rename, alias) THEN alias
    ELSE IF dict_has(normalized_rename, dict_get(normalized_rename, alias))
         THEN dict_get(normalized_rename, dict_get(normalized_rename, alias))
         ELSE dict_get(normalized_rename, alias)

\* normalized_rename.get(alias, alias)
resolve_alias(normalized_rename, alias) ==
    IF dict_has(normalized_rename, alias) THEN dict_get(normalized_rename, alias) ELSE alias

\* a variant of format_field that writes the alias without quotes
\* (C9_NoOpMaps tells it from format_field)
format_field_bare(indent, expr, new_alias, has_comma) ==
    indent \o expr \o kAs \o new_alias \o (IF has_comma THEN <<",">> ELSE <<>>)

\* f"{indent}{expr} AS \"{new_alias}\"{comma}"
format_field(indent, expr, new_alias, has_comma) ==
    indent \o expr \o kAs \o kQuote \o new_alias \o kQuote
        \o (IF has_comma THEN <<",">> ELSE <<>>)

\* ' ' * (len(line) - len(stripped_line))
indent_of(line, stripped_line) == [i \in 1..(Len(line) - Len(stripped_line)) |-> " "]

\* a SELECT-list line with an AS, after the split: parts[1] raises
\* IndexError when the split found no separator
rename_parts(line, stripped_line, has_comma, parts, normalized_rename) ==
    IF Len(parts) < 2 THEN Raised("IndexError")
    ELSE StrResult(format_field(indent_of(line, stripped_line),
                                strip(parts[1], Whitespace),
                                resolve_alias(normalized_rename,
                                              unquote(strip(parts[2], Whitespace))),
                                has_comma))

\* a SELECT-list line, after the comma test and the rstrip
rename_clean_line(line, stripped_line, has_comma, clean_line, normalized_rename) ==
    IF has_as(clean_line)
    THEN rename_parts(line, stripped_line, has_comma, split_as(clean_line),
                      normalized_rename)
    ELSE IF has_comma THEN StrResult(rstrip(line, {",", " "}) \o <<",">>)
    ELSE StrResult(line)

\* a line of the SELECT list: the new line, or the exception raised
rename_field_line(line, stripped_line, normalized_rename) ==
    rename_clean_line(line, stripped_line, endswith(stripped_line, <<",">>),
                      rstrip(stripped_line, {",", " "}), normalized_rename)

\* new_lines.append(new line), or the exception leaves the loop
add_field_line(st, r) ==
    IF r.kind = "str" THEN [st EXCEPT !.new_lines = Append(st.new_lines, r.val)]
    ELSE [st EXCEPT !.error = r.kind]

\* the section tests of the line loop, on the stripped line and its upper case
classify_line(st, line, stripped_line, upper_line, normalized_rename) ==
    IF enters_select(upper_line)
        THEN [st EXCEPT !.in_select = TRUE, !.new_lines = Append(st.new_lines, line)]
    ELSE IF leaves_select(upper_line)
        THEN [st EXCEPT !.in_select = FALSE, !.new_lines = Append(st.new_lines, line)]
    ELSE IF ~st.in_select
        THEN [st EXCEPT !.new_lines = Append(st.new_lines, line)]
    ELSE add_field_line(st, rename_field_line(line, stripped_line, normalized_rename))

\* the line loop body after line.strip()
rename_stripped(st, line, stripped_line, normalized_rename) ==
    classify_line(st, line, stripped_line, upper(stripped_line), normalized_rename)

\* one iteration of the line loop; st holds in_select, new_lines and the
\* exception raised so far, if any
rename_line(st, line, normalized_rename) ==
    IF st.error # "" THEN st
    ELSE rename_stripped(st, line, strip(line, Whitespace), normalized_rename)

\* for line in lines: lines i..Len(lines)
RECURSIVE line_loop(_, _, _, _)
line_loop(st, lines, i, normalized_rename) ==
    IF i > Len(lines) THEN st
    ELSE line_loop(rename_line(st, lines[i], normalized_rename), lines, i + 1,
                   normalized_rename)

\* the state of the line loop before the first line
rename_start == [in_select |-> FALSE, new_lines |-> <<>>, error |-> ""]

\* '\n'.join(new_lines), unless the loop raised
rename_result(st) ==
    IF st.error # "" THEN Raised(st.error) ELSE StrResult(join(<<"\n">>, st.new_lines))

\* rename_aliases
rename_aliases(query, rename_dict) ==
    IF query = <<>> \/ rename_dict = <<>> THEN StrResult(query)
    ELSE rename_result(line_loop(rename_start, split(query, <<"\n">>), 1,
                                 normalize_rename(rename_dict)))

(***************************************************************************)
(* generate_cte: the CTE composer.                                         *)
(***************************************************************************)
\* Python None where a str is expected
PyNone == <<"None">>

\* the diagnostic returned when no table yields a query (transliterated)
CteDiagnostic ==
    <<"N","e"," ","u","d","a","l","o","s","'"," ","s","g","e","n","e","r","i","r","o","v","a","t","'",
      " ","C","T","E"," ","d","l","y","a"," ","u","k","a","z","a","n","n","y","k","h",
      " ","t","a","b","l","i","t","s">>

\* cte_name = table_1c_name.replace(".", "_")
cte_name_of(table_1c_name) == replace(table_1c_name, <<".">>, <<"_">>)

\* a variant of record_first_cte that keeps the latest name
\* (C10_CteComposition tells it from record_first_cte)
record_last_cte(first_cte, cte_name) == cte_name

\* first_cte after a successful pair
record_first_cte(first_cte, cte_name) == IF first_cte = PyNone THEN cte_name ELSE first_cte

\* f"{cte_name} AS (\n{query}\n)"
cte_part(cte_name, query) == cte_name \o kAs \o <<"(","\n">> \o query \o <<"\n",")">>

\* the loop body after a successful generation
cte_append(loc, g, cte_name, fields) ==
    [self |-> g.self,
     cte_parts |-> Append(loc.cte_parts, cte_part(cte_name, g.ret.val)),
     select_fields |-> loc.select_fields \o
         [i \in 1..Len(fields) |-> cte_name \o <<".">> \o kQuote \o fields[i] \o kQuote],
     first_cte |-> record_first_cte(loc.first_cte, cte_name)]

\* the loop body after generate_query returned g: "if not query: continue"
cte_add(loc, g, table_1c_name, fields) ==
    IF g.ret.kind = "None" \/ g.ret.val = <<>>
    THEN [loc EXCEPT !.self = g.self]
    ELSE cte_append(loc, g, cte_name_of(table_1c_name), fields)

\* one iteration of the loop over metadata.items(); loc holds the instance
\* and the locals cte_parts, select_fields, first_cte
cte_pair(loc, table_1c_name, fields) ==
    cte_add(loc, generate_query(loc.self, table_1c_name, Filter(fields)),
            table_1c_name, fields)

\* for table_1c_name, fields in metadata.items(): pairs i..Len(metadata)
RECURSIVE cte_loop(_, _, _)
cte_loop(loc, metadata, i) ==
    IF i > Len(metadata) THEN loc
    ELSE cte_loop(cte_pair(loc, metadata[i][1], metadata[i][2]), metadata, i + 1)

\* the locals of generate_cte before the loop
cte_start(self) ==
    [self |-> self, cte_parts |-> <<>>, select_fields |-> <<>>, first_cte |-> PyNone]

\* generate_cte after the loop
cte_result(loc) ==
    IF loc.cte_parts = <<>>
    THEN [self |-> loc.self, ret |-> StrResult(CteDiagnostic)]
    ELSE [self |-> loc.self,
          ret |-> StrResult(<<"W","I","T","H","\n"," "," "," "," ">>
                    \o join(<<",","\n"," "," "," "," ">>, loc.cte_parts)
                    \o <<"\n">> \o kSELECT \o <<"\n"," "," "," "," ">>
                    \o join(<<",","\n"," "," "," "," ">>, loc.select_fields)
                    \o <<"\n","F","R","O","M"," ">> \o loc.first_cte)]

\* generate_cte: the instance after the call and the returned text
generate_cte(self, metadata) == cte_result(cte_loop(cte_start(self), metadata, 1))

(***************************************************************************)
(* Inputs of the operations.                                               *)
(***************************************************************************)
\* the field names of the mapping table
FieldNames == {df[i].field_1c : i \in 1..Len(df)}

\* the position of a field name in the stored order of the rows
NameRank(x) ==
    CHOOSE i \in 1..Len(RowPool) :
        RowPool[i].field_1c = x /\ \A j \in 1..(i - 1) : RowPool[j].field_1c # x

\* lists of at most n elements of S
RECURSIVE ListsUpTo(_, _)
ListsUpTo(S, n) ==
    IF n = 0 THEN {<<>>}
    ELSE LET shorter == ListsUpTo(S, n - 1)
         IN  shorter \cup {Append(l, x) : l \in shorter, x \in S}

\* the include_aliases arguments: None and the lists of at most MaxFilterLen
\* field names (a filter is only tested for membership, so each set of
\* names is listed once, in stored order)
FilterLists ==
    {l \in ListsUpTo(FieldNames, MaxFilterLen) :
        \A i, j \in 1..Len(l) : i < j => NameRank(l[i]) < NameRank(l[j])}
Filters == {NoFilter} \cup {Filter(l) : l \in FilterLists}

\* rename_dict arguments: the empty map; the map of every output alias of
\* the master table to itself; a map that sends f to g and (under a quoted
\* key) g to h and also has keys equal to the main alias and to a physical
\* column; a map that swaps g and h
IdentityMap ==
    [i \in 1..(2 * Len(RowPool)) |->
        IF i <= Len(RowPool)
        THEN <<RowPool[i].field_1c, RowPool[i].field_1c>>
        ELSE <<RowPool[i - Len(RowPool)].field_1c \o kIdSuffix,
               RowPool[i - Len(RowPool)].field_1c \o kIdSuffix>>]
ChainMap ==
    << <<<<"f">>, <<"g">>>>, <<<<"\"", "g", "\"">>, <<"h">>>>,
       <<kMain, <<"x">>>>, <<<<"d">>, <<"x">>>> >>
SwapMap == << <<<<"g">>, <<"h">>>>, <<<<"h">>, <<"g">>>> >>
RenameMaps == {<<>>, IdentityMap, ChainMap, SwapMap}

\* spellings of the AS separator
AsSpellings == {<<" ","A","S"," ">>, <<" ","a","s"," ">>, <<" ","A","s"," ">>}

\* a two-column query written by hand with the separator spelled sep: the
\* first column quoted and followed by a comma, the second bare
HandQuery(sep) ==
    kSELECT \o <<"\n"," "," "," "," ","m","a","i","n",".","c">> \o sep
        \o <<"\"","f","\"",",","\n"," "," "," "," ","m","a","i","n",".","d">> \o sep
        \o <<"g","\n","F","R","O","M"," ","P"," ">> \o kMain
HandQueries == {HandQuery(sep) : sep \in AsSpellings}

\* metadata arguments of generate_cte: at most two distinct logical tables,
\* in either order, each asked for the same fields: none, one field name
\* of the mapping table, or a name that no row of the mapping table has
TableLists ==
    {l \in ListsUpTo(TableNames, 2) : \A i, j \in 1..Len(l) : i # j => l[i] # l[j]}
CteFieldLists == {<<>>} \cup {<<x>> : x \in FieldNames \cup {<<"z">>}}
Metadatas ==
    {[i \in 1..Len(tl) |-> <<tl[i], fl>>] : tl \in TableLists, fl \in CteFieldLists}

\* the call an action made
Call(name, table, include, query, rename, metadata) ==
    [name |-> name, table |-> table, include |-> include, query |-> query,
     rename |-> rename, metadata |-> metadata]

NoCall == Call("__init__", <<>>, NoFilter, <<>>, <<>>, <<>>)

(***************************************************************************)
(* The state machine: one action per public operation.                     *)
(***************************************************************************)
Init ==
    /\ mapping_file \in MappingFiles
    /\ _queries = <<>>
    /\ _aliases = <<>>
    /\ _join_info = <<>>
    /\ op = NoCall
    /\ ret = NoneResult
    /\ mark = [set |-> FALSE, table |-> <<>>, include |-> NoFilter, ret |-> NoneResult]

\* self := s
SetSelf(s) ==
    /\ _queries' = s.queries
    /\ _aliases' = s.aliases
    /\ _join_info' = s.join_info

\* generate_query(table_1c_name, include_aliases)
GenerateCall(table_1c_name, include_aliases) ==
    \E g \in {generate_query(Self, table_1c_name, include_aliases)} :
        /\ SetSelf(g.self)
        /\ op' = Call("generate_query", table_1c_name, include_aliases, <<>>, <<>>, <<>>)
        /\ ret' = g.ret
        /\ UNCHANGED mapping_file

Generate(table_1c_name, include_aliases) ==
    /\ GenerateCall(table_1c_name, include_aliases)
    /\ UNCHANGED mark

\* the same call, kept with its result in mark so that a later call with
\* the same arguments can be compared with it (at most one call is kept)
GenerateMarked(table_1c_name, include_aliases) ==
    /\ ~mark.set
    /\ GenerateCall(table_1c_name, include_aliases)
    /\ mark' = [set |-> TRUE, table |-> table_1c_name, include |-> include_aliases,
                ret |-> ret']

\* get_query_aliases(table_1c_name)
GetQueryAliases(table_1c_name) ==
    \E g \in {get_query_aliases(Self, table_1c_name)} :
        /\ SetSelf(g.self)
        /\ op' = Call("get_query_aliases", table_1c_name, NoFilter, <<>>, <<>>, <<>>)
        /\ ret' = g.ret
        /\ UNCHANGED <<mapping_file, mark>>

\* get_table_join_info(table_1c_name)
GetTableJoinInfo(table_1c_name) ==
    \E g \in {get_table_join_info(Self, table_1c_name)} :
        /\ SetSelf(g.self)
        /\ op' = Call("get_table_join_info", table_1c_name, NoFilter, <<>>, <<>>, <<>>)
        /\ ret' = g.ret
        /\ UNCHANGED <<mapping_file, mark>>

\* generate_cte(metadata)
GenerateCte(metadata) ==
    \E g \in {generate_cte(Self, metadata)} :
        /\ SetSelf(g.self)
        /\ op' = Call("generate_cte", <<>>, NoFilter, <<>>, <<>>, metadata)
        /\ ret' = g.ret
        /\ UNCHANGED <<mapping_file, mark>>

\* the queries handed to the renamer: hand-written ones on a new instance,
\* afterwards the SQL text the last call returned, if it returned one
LastSql ==
    IF op.name = "__init__" THEN HandQueries
    ELSE IF op.name \in {"generate_query", "generate_cte"} /\ ret.kind = "str"
         THEN {ret.val} ELSE {}

\* rename_aliases(query, rename_dict) on the text just generated or on a
\* hand-written query; it reads and writes no instance state
RenameAliases(query, rename_dict) ==
    /\ op' = Call("rename_aliases", <<>>, NoFilter, query, rename_dict, <<>>)
    /\ ret' = rename_aliases(query, rename_dict)
    /\ UNCHANGED <<mapping_file, _queries, _aliases, _join_info, mark>>

\* the instance is used until its text is handed to the renamer
Live == op.name # "rename_aliases"

NextGenerate ==
    \/ \E t \in TableNames, f \in Filters : Live /\ Generate(t, f)

NextMetadata ==
    \/ \E t \in TableNames : Live /\ GetQueryAliases(t)
    \/ \E t \in TableNames : Live /\ GetTableJoinInfo(t)

NextGen == NextGenerate \/ NextMetadata

NextCte ==
    \/ \E md \in Metadatas : Live /\ GenerateCte(md)

NextRename ==
    \/ \E q \in LastSql, m \in RenameMaps : Live /\ RenameAliases(q, m)

Next == NextGen \/ NextCte \/ NextRename

Spec == Init /\ [][Next]_vars
SpecGen == Init /\ [][NextGen]_vars
SpecCte == Init /\ [][NextCte]_vars

\* generate_cte as the first call on the instance
NextCteFirst ==
    \/ \E md \in Metadatas : op.name = "__init__" /\ GenerateCte(md)

SpecRen == Init /\ [][NextGen \/ NextCteFirst \/ NextRename]_vars

NextMarked ==
    \/ \E t \in TableNames, f \in Filters : GenerateMarked(t, f)

SpecDet == Init /\ [][NextGenerate \/ NextMarked]_vars

(***************************************************************************)
(* Reading a returned text: its lines, output aliases and JOIN aliases.    *)
(***************************************************************************)
LinesOf(text) == split(text, <<"\n">>)

TableKnown(table_1c_name) == table_data(table_1c_name) # <<>>

NoRepeat(s) == \A i, j \in 1..Len(s) : i # j => s[i] # s[j]

\* a line that names an output column: <expr> AS "<alias>"
kAsQuote == kAs \o kQuote
HasOutputAlias(line) == contains(line, kAsQuote)
OutputAliasOf(line) == split_once(split_once(line, kAsQuote)[2], kQuote)[1]
AliasesOfLines(ls) == [i \in 1..Len(ls) |-> OutputAliasOf(ls[i])]
OutputAliases(text) == AliasesOfLines(SelectSeq(LinesOf(text), HasOutputAlias))

\* a JOIN clause: LEFT JOIN <table> <alias> ON <condition>
kLeftJoin == <<"L","E","F","T"," ","J","O","I","N"," ">>
IsJoinLine(line) == startswith(line, kLeftJoin)
JoinAliasOf(line) == split(line, <<" ">>)[4]
JoinAliasesOfLines(ls) == [i \in 1..Len(ls) |-> JoinAliasOf(ls[i])]
JoinAliases(text) == JoinAliasesOfLines(SelectSeq(LinesOf(text), IsJoinLine))

\* field names are unique within each logical table of the mapping table
UniqueFieldNames ==
    \A i, j \in 1..Len(df) :
        (i # j /\ df[i].table_1c = df[j].table_1c) => df[i].field_1c # df[j].field_1c

\* line i of ls lies in a SELECT column list: after a SELECT line, with no
\* FROM line in between or at i
IsSelectLine(line) == strip(line, Whitespace) = kSELECT
IsFromLine(line) == startswith(line, <<"F","R","O","M"," ">>)
InSelectList(ls, i) ==
    \E j \in 1..(i - 1) : IsSelectLine(ls[j]) /\ \A k \in (j + 1)..i : ~IsFromLine(ls[k])

\* the part of a line before its AS
ExprOf(line) == split_once(line, kAs)[1]

(***************************************************************************)
(* C1..C6: generation, the cache and the metadata operations.              *)
(***************************************************************************)
\* what generate(T) returns as the very first call on a new instance
FreshComplete(table_1c_name) == generate_query(NewSelf, table_1c_name, NoFilter).ret

\* C1: a complete generate(T) made while no complete generation of T has
\* happened yet (the cache has no entry for T; T was at most generated with
\* field filters) returns exactly the text a new instance built from the
\* same mapping table returns for generate(T).
C1_CompleteAfterFiltered ==
    [][(/\ op'.name = "generate_query"
        /\ op'.include.none
        /\ ~dict_has(_queries, op'.table))
       => ret' = FreshComplete(op'.table)]_vars

\* the operations that run a complete generation
CompleteGeneration(call) ==
    \/ call.name = "generate_query" /\ call.include.none
    \/ call.name \in {"get_query_aliases", "get_table_join_info"}

\* C2: the cache is written only by a complete generation: a filtered
\* generate leaves it as it was, an entry never changes or disappears once
\* it exists, and a complete generate of a cached table returns the entry.
C2_CacheWrittenOnce ==
    [][/\ (_queries' # _queries => CompleteGeneration(op'))
       /\ ((op'.name = "generate_query" /\ ~op'.include.none) => _queries' = _queries)
       /\ \A t \in TableNames :
              dict_has(_queries, t) =>
                  /\ dict_has(_queries', t)
                  /\ dict_get(_queries', t) = dict_get(_queries, t)
                  /\ ((op'.name = "generate_query" /\ op'.include.none /\ op'.table = t)
                        => ret' = StrResult(dict_get(_queries, t)))]_vars

\* a filtered generate of a cached table returned another text than the
\* entry, which is still there
C2_Witness ==
    /\ op.name = "generate_query"
    /\ ~op.include.none
    /\ dict_has(_queries, op.table)
    /\ ret.kind = "str"
    /\ ret.val # dict_get(_queries, op.table)

\* C3: two generate calls on one instance with the same table and the same
\* field filter (or both without one) return the same result, whatever
\* generate calls were made before or between them.
C3_Determinism ==
    (/\ mark.set
     /\ op.name = "generate_query"
     /\ op.table = mark.table
     /\ op.include = mark.include)
    => ret = mark.ret

\* C4: with field names unique within each logical table, a query returned
\* by generate has no two JOIN clauses with the same alias and no two
\* output columns with the same output alias.
C4_AliasUniqueness ==
    (op.name = "generate_query" /\ ret.kind = "str" /\ UniqueFieldNames)
    => NoRepeat(JoinAliases(ret.val)) /\ NoRepeat(OutputAliases(ret.val))

\* C5: for a table name without rows both metadata operations end in an
\* error, never in a normal return value, and generate returns None.
C5_UnknownTableMetadata ==
    /\ (op.name \in {"get_query_aliases", "get_table_join_info"} /\ ~TableKnown(op.table))
          => ret.kind \notin {"str", "None", "dict"}
    /\ (op.name = "generate_query" /\ ~TableKnown(op.table)) => ret = NoneResult

\* C6: generate for a table name without rows returns None, with or
\* without a field filter, and changes nothing: the alias registry, the
\* join-info store and the cache stay as they were and hold no entry for
\* that name.
C6_UnknownTableNoEffect ==
    [][(op'.name = "generate_query" /\ ~TableKnown(op'.table))
       => /\ ret' = NoneResult
          /\ UNCHANGED <<_queries, _aliases, _join_info>>
          /\ ~dict_has(_queries', op'.table)
          /\ ~dict_has(_aliases', op'.table)
          /\ ~dict_has(_join_info', op'.table)]_vars

\* a filtered generate of an unknown name on an instance that holds the
\* registries and the cached text of another table
C6_Witness ==
    /\ op.name = "generate_query"
    /\ ~op.include.none
    /\ ~TableKnown(op.table)
    /\ ret = NoneResult
    /\ _queries # <<>>
    /\ _aliases # <<>>
    /\ _join_info # <<>>

(***************************************************************************)
(* C7..C9: the renamer.                                                    *)
(***************************************************************************)
\* the renamed text was one returned by generate_query or generate_cte
RenamedGenerated == op.name = "rename_aliases" /\ op.query \notin HandQueries

\* outl has the lines of inl in the same order: a line outside the SELECT
\* column lists is the same line, a line inside one keeps its expression
SameOutsideSelectLists(inl, outl) ==
    /\ Len(outl) = Len(inl)
    /\ \A i \in 1..Len(inl) :
           IF InSelectList(inl, i) THEN ExprOf(outl[i]) = ExprOf(inl[i])
           ELSE outl[i] = inl[i]

\* C7: for a text produced by generate_query or generate_cte and any rename
\* map, rename_aliases returns a text with as many lines in the same order,
\* and every line outside a SELECT column list (SELECT, FROM and LEFT JOIN
\* lines, CTE headers and closing lines) is the input line, also when the
\* map has a key equal to a table alias or a physical column name.
C7_SectionIsolation ==
    RenamedGenerated =>
        /\ ret.kind = "str"
        /\ SameOutsideSelectLists(LinesOf(op.query), LinesOf(ret.val))

\* a CTE text with a JOIN on column d was renamed under the map with the
\* keys main and d, and an alias changed
C7_Witness ==
    /\ RenamedGenerated
    /\ op.rename = ChainMap
    /\ startswith(op.query, <<"W","I","T","H">>)
    /\ \E i \in 1..Len(LinesOf(op.query)) :
           /\ IsJoinLine(LinesOf(op.query)[i])
           /\ contains(LinesOf(op.query)[i], <<"m","a","i","n",".","d"," ">>)
    /\ ret.kind = "str"
    /\ ret.val # op.query

\* C8: a SELECT-list line whose AS is written in lower or mixed case is
\* renamed like the same line with an upper-case AS: the call returns
\* normally, with the line re-emitted as <indent><expr> AS "<alias>"<comma>.
C8_AsAnyCase ==
    (op.name = "rename_aliases" /\ op.query \in HandQueries /\ op.rename # <<>>)
    => ret.kind = "str" /\ ret = rename_aliases(HandQuery(kAs), op.rename)

\* m maps every name of the sequence to itself
MapsToItself(m, aliases) ==
    \A i \in 1..Len(aliases) :
        dict_has(m, aliases[i]) /\ dict_get(m, aliases[i]) = aliases[i]

\* C9: renaming a generated text q under the empty map, or under a map that
\* sends every output alias of q to itself, returns q.
C9_NoOpMaps ==
    (RenamedGenerated /\ (op.rename = <<>> \/ MapsToItself(op.rename, OutputAliases(op.query))))
    => ret = StrResult(op.query)

\* a text of generate_query with output columns was renamed under the map
\* of every output alias to itself
C9_Witness ==
    /\ RenamedGenerated
    /\ op.rename = IdentityMap
    /\ startswith(op.query, kSELECT)
    /\ Len(OutputAliases(op.query)) >= 2
    /\ MapsToItself(op.rename, OutputAliases(op.query))
    /\ ret = StrResult(op.query)

(***************************************************************************)
(* C10: the CTE composer.                                                  *)
(***************************************************************************)
\* the pairs of a metadata argument whose table has rows
PairKnown(pair) == TableKnown(pair[1])
Succeeded(metadata) == SelectSeq(metadata, PairKnown)

\* the CTE name of a logical table: its name with "_" for "."
CteNameOf(t) == [i \in 1..Len(t) |-> IF t[i] = "." THEN "_" ELSE t[i]]

\* the names of the CTEs of a text, from its header lines <name> AS (
IsCteHeader(line) == endswith(line, kAs \o <<"(">>)
CteHeaderNames(ls) == [i \in 1..Len(ls) |-> strip(ExprOf(ls[i]), Whitespace)]
CteNames(text) == CteHeaderNames(SelectSeq(LinesOf(text), IsCteHeader))

\* the columns of the outer SELECT of a text: the lines after its last
\* SELECT line and before its last line, without indentation and comma
NonEmpty(x) == x # <<>>
ColumnsFrom(ls, j) ==
    SelectSeq([i \in 1..(Len(ls) - 1 - j) |-> rstrip(strip(ls[j + i], Whitespace), {","})],
              NonEmpty)
LastSelect(ls) ==
    CHOOSE j \in 1..Len(ls) : ls[j] = kSELECT /\ \A k \in (j + 1)..Len(ls) : ls[k] # kSELECT
OuterColumns(ls) == ColumnsFrom(ls, LastSelect(ls))

\* the outer columns the pairs ask for: <cte name>."<field>", pair by pair
RECURSIVE ExpectedColumns(_)
ExpectedColumns(pairs) ==
    IF pairs = <<>> THEN <<>>
    ELSE [i \in 1..Len(pairs[1][2]) |->
             CteNameOf(pairs[1][1]) \o <<".">> \o kQuote \o pairs[1][2][i] \o kQuote]
         \o ExpectedColumns(Tail(pairs))

\* a text composed for the pairs ok, read line by line
ComposedFor(ok, text, ls) ==
    /\ CteNames(text) = [i \in 1..Len(ok) |-> CteNameOf(ok[i][1])]
    /\ OuterColumns(ls) = ExpectedColumns(ok)
    /\ ls[Len(ls)] = <<"F","R","O","M"," ">> \o CteNameOf(ok[1][1])

\* C10: generate_cte takes the pairs in the order given, emits one CTE per
\* pair whose table has rows and none (and no outer column) for a pair
\* whose table has none, selects FROM the CTE of the first pair that
\* succeeded, and returns the diagnostic string when no pair succeeds.
C10_CteComposition ==
    op.name = "generate_cte" =>
        /\ ret.kind = "str"
        /\ IF Succeeded(op.metadata) = <<>>
           THEN ret.val = CteDiagnostic
           ELSE ComposedFor(Succeeded(op.metadata), ret.val, LinesOf(ret.val))

\* the first pair was skipped and the second one gave the only CTE
C10_Witness ==
    /\ op.name = "generate_cte"
    /\ Len(op.metadata) = 2
    /\ ~TableKnown(op.metadata[1][1])
    /\ TableKnown(op.metadata[2][1])
    /\ op.metadata[2][2] # <<>>
    /\ ret.kind = "str"
    /\ Len(CteNames(ret.val)) = 1

(***************************************************************************)
(* Reading the SELECT list of a generated query against the rows of the    *)
(* mapping table that the call included.                                   *)
(***************************************************************************)
\* the call returned a query
Generated == op.name = "generate_query" /\ ret.kind = "str"

\* the rows of table t that a call with the filter inc includes, in stored order
IncludedRows(t, inc) ==
    SelectSeq(table_data(t), LAMBDA row : inc.none \/ in_list(row.field_1c, inc.list))

\* the main physical table of logical table t: that of its first row
MainTableOf(t) == table_data(t)[1].sql_table

IsReferenceRow(row) == notna(row.field_type)
IsSelfReference(row, mt) == IsReferenceRow(row) /\ row.external_table = mt

\* the first FROM line of a generated query
FromLine(ls) ==
    CHOOSE k \in 1..Len(ls) : IsFromLine(ls[k]) /\ \A j \in 1..(k - 1) : ~IsFromLine(ls[j])

\* the output columns of a generated query, without indentation and comma:
\* the lines between its SELECT line, the first one, and its FROM line
ColumnLines(ls) ==
    SelectSeq([i \in 1..(FromLine(ls) - 2) |-> rstrip(strip(ls[i + 1], Whitespace), {","})],
              NonEmpty)
SelectColumns(text) == ColumnLines(LinesOf(text))

\* the parts of an output column <table alias>.<column> AS "<name>"
ColumnExpr(column) == split_once(column, kAs)[1]
ColumnName(column) == strip(split_once(column, kAs)[2], {"\""})
TableAliasOf(expr) == split_once(expr, <<".">>)[1]

\* the JOIN lines of a query text
JoinLines(text) == SelectSeq(LinesOf(text), IsJoinLine)

\* the number of output columns the rows before row i take, when a regular
\* row takes one column and a reference-like row two
RECURSIVE ColumnsBefore(_, _)
ColumnsBefore(rows, i) ==
    IF i = 1 THEN 0
    ELSE ColumnsBefore(rows, i - 1) + (IF IsReferenceRow(rows[i - 1]) THEN 2 ELSE 1)

\* the description column of the reference-like row i: its second column
DescColumn(rows, i, columns) == columns[ColumnsBefore(rows, i) + 2]

\* the join alias the reference-like row i reads its description through
DescAlias(rows, i, columns) == TableAliasOf(ColumnExpr(DescColumn(rows, i, columns)))

(***************************************************************************)
(* C11..C14: join aliases and the shape of the SELECT list.                *)
(***************************************************************************)
\* LEFT JOIN <mt> <a> ON main.[<col>] = <a>.[_IDRRef]
SelfJoinClause(mt, a, col) ==
    kLeftJoin \o mt \o <<" ">> \o a \o <<" ","O","N"," ","m","a","i","n",".","[">> \o col
        \o <<"]"," ","="," ">> \o a \o <<".","[","_","I","D","R","R","e","f","]">>

\* the self-referencing row with the description alias a has its own JOIN
SelfJoinOk(row, a, joins, mt) ==
    /\ a # kMain
    /\ Cardinality({k \in 1..Len(joins) : JoinAliasOf(joins[k]) = a}) = 1
    /\ \E k \in 1..Len(joins) : joins[k] = SelfJoinClause(mt, a, row.sql_field)

SelfJoinsOk(rows, columns, joins, mt) ==
    /\ \A i \in 1..Len(rows) :
           IsSelfReference(rows[i], mt) =>
               SelfJoinOk(rows[i], DescAlias(rows, i, columns), joins, mt)
    /\ \A i, j \in 1..Len(rows) :
           (/\ IsSelfReference(rows[i], mt)
            /\ IsSelfReference(rows[j], mt)
            /\ rows[i].sql_field # rows[j].sql_field)
           => DescAlias(rows, i, columns) # DescAlias(rows, j, columns)

\* C11: for every included reference-like field whose external table is
\* the main table, the query has one JOIN clause under an alias other than
\* main, with main's column on the left of ON and the alias's _IDRRef on the
\* right, the description column is read through that alias, and two such
\* fields on different columns have different aliases (so two JOIN clauses).
C11_SelfJoinDistinct ==
    Generated =>
        SelfJoinsOk(IncludedRows(op.table, op.include), SelectColumns(ret.val),
                    JoinLines(ret.val), MainTableOf(op.table))

\* a query with two self-referencing fields was generated
C11_Witness ==
    /\ Generated
    /\ Len(SelectSeq(IncludedRows(op.table, op.include),
                     LAMBDA row : IsSelfReference(row, MainTableOf(op.table)))) = 2

IsExternalReference(row, mt) == IsReferenceRow(row) /\ row.external_table # mt

\* rows i and j are two included references to external tables
BothExternal(rows, i, j, mt) ==
    i # j /\ IsExternalReference(rows[i], mt) /\ IsExternalReference(rows[j], mt)

\* references to one external table share the alias, references to
\* different external tables do not (the columns are read once, and only
\* when two such rows are included)
ExternalAliasesOk(rows, columns, mt) ==
    (\E i, j \in 1..Len(rows) : BothExternal(rows, i, j, mt)) =>
        \A read \in {columns} :
            \A i, j \in 1..Len(rows) :
                BothExternal(rows, i, j, mt) =>
                    ((rows[i].external_table = rows[j].external_table)
                        <=> (DescAlias(rows, i, read) = DescAlias(rows, j, read)))

\* the table a JOIN clause joins
JoinTableOf(clause) == split(clause, <<" ">>)[3]

\* the JOIN clauses of table t in a join-info store
StoredJoins(join_info, t) == IF dict_has(join_info, t) THEN dict_get(join_info, t) ELSE <<>>

\* the JOIN clauses a call added: those stored after it under a new alias
\* or with another text than before
AddedJoins(before, after) ==
    SelectSeq(after, LAMBDA e : ~dict_has(before, e[1]) \/ dict_get(before, e[1]) # e[2])

\* no two of the clauses join the same table, unless that table is mt
OnePerExternalTable(added, mt) ==
    \A i, j \in 1..Len(added) :
        (i # j /\ JoinTableOf(added[i][2]) # mt)
            => JoinTableOf(added[i][2]) # JoinTableOf(added[j][2])

\* C12: within one generate call the included references to the same
\* external table (self-references aside) read their description through the
\* same join alias, references to different external tables through
\* different aliases, and the call adds at most one JOIN clause per external
\* table.
C12_ExternalAliasReuse ==
    [][(op'.name = "generate_query" /\ ret'.kind = "str") =>
          /\ ExternalAliasesOk(IncludedRows(op'.table, op'.include),
                               SelectColumns(ret'.val), MainTableOf(op'.table))
          /\ OnePerExternalTable(AddedJoins(StoredJoins(_join_info, op'.table),
                                            StoredJoins(_join_info', op'.table)),
                                 MainTableOf(op'.table))]_vars

\* a query with two references to one external table was generated
C12_Witness ==
    /\ Generated
    /\ \E i, j \in 1..Len(IncludedRows(op.table, op.include)) :
           /\ BothExternal(IncludedRows(op.table, op.include), i, j, MainTableOf(op.table))
           /\ IncludedRows(op.table, op.include)[i].external_table
                  = IncludedRows(op.table, op.include)[j].external_table

\* the external tables of the included references, each once, in order of
\* first appearance
ExternalTables(rows, mt) ==
    unique([i \in 1..Len(SelectSeq(rows, LAMBDA row : IsExternalReference(row, mt))) |->
               SelectSeq(rows, LAMBDA row : IsExternalReference(row, mt))[i].external_table])

\* the position of external table e in that order, counted from 0
ExternalRank(tables, e) == (CHOOSE k \in 1..Len(tables) : tables[k] = e) - 1

\* every reference to an external table reads through ext_<rank of the table>
SequentialAliases(rows, columns, mt, tables) ==
    \A i \in 1..Len(rows) :
        IsExternalReference(rows[i], mt) =>
            DescAlias(rows, i, columns)
                = <<"e","x","t","_">> \o str(ExternalRank(tables, rows[i].external_table))

\* C13: within one generate call the distinct external tables (other than
\* the main table) get, in order of first appearance among the included
\* rows, the aliases ext_0, ext_1, ext_2, ... with no number skipped,
\* whatever regular fields, self-references and repeated references lie
\* between them.
C13_SequentialAliases ==
    Generated =>
        SequentialAliases(IncludedRows(op.table, op.include), SelectColumns(ret.val),
                          MainTableOf(op.table),
                          ExternalTables(IncludedRows(op.table, op.include),
                                         MainTableOf(op.table)))

\* main.<column> AS "<name>"
OwnColumn(row, name) ==
    kMain \o <<".">> \o row.sql_field \o kAs \o kQuote \o name \o kQuote

\* the columns of row i, the first of them at position b + 1: one column
\* <field> for a regular row; for a reference-like row the column <field>_ID
\* on the row's own physical column, then the column <field> on the
\* description column of the joined table
RowColumnsOk(row, columns, b) ==
    IF IsReferenceRow(row)
    THEN /\ columns[b + 1] = OwnColumn(row, row.field_1c \o kIdSuffix)
         /\ ColumnName(columns[b + 2]) = row.field_1c
         /\ ColumnExpr(columns[b + 2])
                = TableAliasOf(ColumnExpr(columns[b + 2])) \o <<".">>
                      \o _get_field_type_info(row.field_type)[2]
    ELSE columns[b + 1] = OwnColumn(row, row.field_1c)

SelectListOk(rows, columns) ==
    /\ Len(columns) = ColumnsBefore(rows, Len(rows) + 1)
    /\ \A i \in 1..Len(rows) : RowColumnsOk(rows[i], columns, ColumnsBefore(rows, i))

\* C14: the SELECT list of generate(T, F) holds, in the stored row order of
\* T, one column <field> for each included regular row and two columns for
\* each included reference-like row (<field>_ID on the row's own column,
\* then <field> on the description column through a join alias), and no
\* column for a row whose field name is not in F; without a filter every
\* row of T is included.
C14_SelectListShape ==
    Generated => SelectListOk(IncludedRows(op.table, op.include), SelectColumns(ret.val))

\* a filtered call included a reference-like row and left another row out
C14_Witness ==
    /\ Generated
    /\ ~op.include.none
    /\ Len(IncludedRows(op.table, op.include)) < Len(table_data(op.table))
    /\ \E i \in 1..Len(IncludedRows(op.table, op.include)) :
           IsReferenceRow(IncludedRows(op.table, op.include)[i])

(***************************************************************************)
(* C15: one lookup per alias in the renamer.                               *)
(***************************************************************************)
\* a key of a rename map without its surrounding quote characters
UnquotedKey(k) == strip(k, {"\"", "'"})

\* the entries of map m whose key, unquoted, is the alias a
KeysFor(m, a) == {i \in 1..Len(m) : UnquotedKey(m[i][1]) = a}

\* the name one lookup of a in m gives: the value of the (last) entry whose
\* unquoted key is a, or a itself when there is none
LookedUpOnce(m, a) ==
    IF KeysFor(m, a) = {} THEN a
    ELSE m[CHOOSE i \in KeysFor(m, a) : \A j \in KeysFor(m, a) : j <= i][2]

\* the output alias of a SELECT-list line
NameOfLine(line) == ColumnName(rstrip(strip(line, Whitespace), {","}))

\* every SELECT-list line with an AS carries the looked-up name of its alias
RenamedOnce(inl, outl, m) ==
    /\ Len(outl) = Len(inl)
    /\ \A i \in 1..Len(inl) :
           (InSelectList(inl, i) /\ contains(inl[i], kAs))
               => NameOfLine(outl[i]) = LookedUpOnce(m, NameOfLine(inl[i]))

\* C15: the renamer gives each SELECT-list alias the result of a single
\* lookup in the rename map with unquoted keys and does not apply the map
\* to that result: under {A -> B, B -> C} a column A becomes B and a column
\* B becomes C, {A -> B, B -> A} swaps them, an alias that is no key stays,
\* and a key written in quotes matches the bare alias.
C15_SingleLookup ==
    (op.name = "rename_aliases" /\ op.rename # <<>> /\ ret.kind = "str")
    => RenamedOnce(LinesOf(op.query), LinesOf(ret.val), op.rename)

\* line i of ls is a SELECT-list line with the output alias name
LineNames(ls, i, name) ==
    InSelectList(ls, i) /\ contains(ls[i], kAs) /\ NameOfLine(ls[i]) = name

\* a query with the columns g and h was renamed under the map that swaps
\* g and h
C15_Witness ==
    /\ op.name = "rename_aliases"
    /\ op.rename = SwapMap
    /\ ret.kind = "str"
    /\ \E i, j \in 1..Len(LinesOf(op.query)) :
           /\ LineNames(LinesOf(op.query), i, <<"g">>)
           /\ LineNames(LinesOf(op.query), j, <<"h">>)
           /\ LineNames(LinesOf(ret.val), i, <<"h">>)
           /\ LineNames(LinesOf(ret.val), j, <<"g">>)

(***************************************************************************)
(* C16, C17: the alias registry, the cache and the JOIN clauses.           *)
(***************************************************************************)
\* the mapping gives every output column of the query its expression
RegistryMatches(mapping, columns) ==
    \A i \in 1..Len(columns) :
        /\ dict_has(mapping, ColumnName(columns[i]))
        /\ dict_get(mapping, ColumnName(columns[i])) = ColumnExpr(columns[i])

\* C16: whenever the cache holds the complete query of table T, the mapping
\* get_query_aliases(T) returns maps the name of every output column
\* <expr> AS "<name>" of the cached query to exactly <expr>.  (Stated for
\* cached queries whose output aliases are distinct: with a repeated alias
\* no mapping can hold both expressions.)
C16_RegistryMatchesCache ==
    (/\ op.name = "get_query_aliases"
     /\ ret.kind = "dict"
     /\ dict_has(_queries, op.table)
     /\ NoRepeat(OutputAliases(dict_get(_queries, op.table))))
    => RegistryMatches(ret.val, SelectColumns(dict_get(_queries, op.table)))

\* every reference-like row outside its own main table carries relation text
RelationsGiven ==
    \A i \in 1..Len(df) :
        IsExternalReference(df[i], MainTableOf(df[i].table_1c)) => notna(df[i].relation)

\* the JOIN lines with the alias a
JoinsUnder(joins, a) == {k \in 1..Len(joins) : JoinAliasOf(joins[k]) = a}

\* the alias a is main or the alias of exactly one JOIN line
AliasJoined(a, joins) == a = kMain \/ Cardinality(JoinsUnder(joins, a)) = 1

\* the JOIN line under the alias a joins the table e
JoinsTable(a, joins, e) == \A k \in JoinsUnder(joins, a) : JoinTableOf(joins[k]) = e

NoDanglingAlias(rows, columns, joins) ==
    /\ \A c \in 1..Len(columns) : AliasJoined(TableAliasOf(ColumnExpr(columns[c])), joins)
    /\ \A i \in 1..Len(rows) :
           IsReferenceRow(rows[i]) =>
               /\ DescAlias(rows, i, columns) # kMain
               /\ JoinsTable(DescAlias(rows, i, columns), joins, rows[i].external_table)

\* C17: when every reference-like row to an external table carries relation
\* text, each table alias used in an output column of a generated query is
\* main or the alias of exactly one JOIN clause of that query, and the
\* clause joins the external table of the field that uses the alias.
C17_NoDanglingAlias ==
    (Generated /\ RelationsGiven)
    => NoDanglingAlias(IncludedRows(op.table, op.include), SelectColumns(ret.val),
                       JoinLines(ret.val))

\* the alias a is used by an output column
AliasUsed(a, columns) ==
    \E c \in 1..Len(columns) : TableAliasOf(ColumnExpr(columns[c])) = a

\* a filtered query reads an external table through its alias and carries
\* a further JOIN clause, stored by an earlier call, that no column uses
C17_Witness ==
    /\ Generated
    /\ ~op.include.none
    /\ \E i \in 1..Len(IncludedRows(op.table, op.include)) :
           IsExternalReference(IncludedRows(op.table, op.include)[i], MainTableOf(op.table))
    /\ \E k \in 1..Len(JoinLines(ret.val)) :
           ~AliasUsed(JoinAliasOf(JoinLines(ret.val)[k]), SelectColumns(ret.val))

(***************************************************************************)
(* C18: the outer SELECT of a composed text against its CTEs.              *)
(***************************************************************************)
\* the parts of an outer column <cte name>."<field>"
kDotQuote == <<".">> \o kQuote
OuterCte(column) == split_once(column, kDotQuote)[1]
OuterField(column) == split_once(split_once(column, kDotQuote)[2], kQuote)[1]

\* line h is the header of the CTE called name
CteHeaderAt(ls, h, name) == IsCteHeader(ls[h]) /\ strip(ExprOf(ls[h]), Whitespace) = name

\* line i lies in the inner query that starts after the header line h: no
\* closing line ")" comes between them or at i
IsClosing(line) == rstrip(line, {","}) = <<")">>
InCteBody(ls, h, i) == h < i /\ \A k \in (h + 1)..i : ~IsClosing(ls[k])

\* the text has a CTE called name whose inner query has an output column
\* aliased field
HasInnerColumn(ls, name, field) ==
    \E h \in 1..Len(ls) :
        /\ CteHeaderAt(ls, h, name)
        /\ \E i \in (h + 1)..Len(ls) :
               /\ InCteBody(ls, h, i)
               /\ HasOutputAlias(ls[i])
               /\ OutputAliasOf(ls[i]) = field

OuterColumnsExist(ls, outer) ==
    \A c \in 1..Len(outer) : HasInnerColumn(ls, OuterCte(outer[c]), OuterField(outer[c]))

\* C18: in every text composed by generate_cte, each outer column
\* <cte name>."<field>" names a CTE of the WITH block whose inner query has
\* an output column aliased <field>, and no two CTEs have the same name.
C18_OuterColumnsExist ==
    (op.name = "generate_cte" /\ ret.kind = "str" /\ ret.val # CteDiagnostic)
    => /\ OuterColumnsExist(LinesOf(ret.val), OuterColumns(LinesOf(ret.val)))
       /\ NoRepeat(CteNames(ret.val))

====
